---- MODULE Spec2Model ----
(***************************************************************************)
(* A model of audiotest2.py: the chapter index (get_current_chapter,       *)
(* get_next_chapter_time, get_previous_chapter_time), the resume position  *)
(* store (load_playback_position, save_playback_position), the player      *)
(* channel (send_ipc_command) and the control loop (play_audiobook,        *)
(* handle_playback_controls).                                              *)
(*                                                                         *)
(* Times are integers counting clock units of 1/Scale second, so that      *)
(* int(current_time) is a real truncation.                               *)
(***************************************************************************)
EXTENDS Integers, Sequences, FiniteSets, TLC

VARIABLES
    chapters,           \* chapter_info returned by get_metadata
    total_duration,     \* total_duration / chapter_time of play_audiobook
    now,                \* the wall clock, time.time()
    pc,                 \* position of the process in main / play_audiobook
    error,              \* the exception that left play_audiobook, or "none"
    playback_position,  \* play_audiobook's playback_position
    start_time,         \* play_audiobook's start_time
    current_time,       \* play_audiobook's current_time (elapsed)
    current_chapter,    \* play_audiobook's current_chapter
    next_chapter_time,  \* handle_playback_controls' next_chapter_time
    prev_chapter_time,  \* handle_playback_controls' prev_chapter_time
    display,            \* what display_info last put on the screen
    mpv,                \* the Popen calls of the session: their --start values
    ipc,                \* the lines written to /tmp/mpv-socket, in order
    file,               \* playback_position.pkl: whether it exists, and its bytes
    media,              \* what ffmpeg.probe reports of the audio file
    keys,               \* history: the command keys handled in this session, each
                        \* with current_time and the outcome of its channel writes
    stored,             \* history: the value of the last completed save, or None
    sessions            \* history: the number of times main was run

vars == <<chapters, total_duration, now, pc, error, playback_position,
          start_time, current_time, current_chapter, next_chapter_time,
          prev_chapter_time, display, mpv, ipc, file, media, keys, stored,
          sessions>>

----------------------------------------------------------------------------
(* Bounds of the model *)

\* clock units per second
Scale == 2
\* the largest number of chapters of a table of the index specification
MaxChapters == 2
\* the largest chapter time of the index specification
MaxT == 3
\* the wall clock stops here
MaxNow == 12
\* the most command keys pressed in one session
MaxKeys == 2
\* the most runs of main
MaxSessions == 2
\* the bytes of the payload of a pickled float (8 in pickle's BINFLOAT)
PayloadLen == 2

(* Program constants *)

\* int(current_time) % 5
SaveInterval == 5
\* seek 30 relative / seek -30 relative
SeekStep == 30


UnknownChapter == "Unknown Chapter"
None == -1

----------------------------------------------------------------------------
(* The chapter index *)

\* get_metadata gives a chapter its title tag, or 'Unknown Chapter' without one
ChapterTitle(tags) == IF tags = "" THEN UnknownChapter ELSE tags

\* A mutant of get_current_chapter: the end of a chapter is inclusive.
RECURSIVE ScanCurrentEndInclusive(_, _, _)
ScanCurrentEndInclusive(t, chs, i) ==
    IF i > Len(chs) THEN UnknownChapter
    ELSE IF t >= chs[i].start_time /\ t <= chs[i].end_time THEN chs[i].title
    ELSE ScanCurrentEndInclusive(t, chs, i + 1)

\* the for loop of get_current_chapter from index i on
RECURSIVE ScanCurrent(_, _, _)
ScanCurrent(t, chs, i) ==
    IF i > Len(chs) THEN UnknownChapter
    ELSE IF t >= chs[i].start_time /\ t < chs[i].end_time THEN chs[i].title
    ELSE ScanCurrent(t, chs, i + 1)

get_current_chapter_end_inclusive(t, chs) == ScanCurrentEndInclusive(t, chs, 1)

\* A mutant of get_current_chapter: no break, the last covering chapter wins.
RECURSIVE ScanCurrentNoBreak(_, _, _, _)
ScanCurrentNoBreak(t, chs, i, found) ==
    IF i > Len(chs) THEN found
    ELSE IF t >= chs[i].start_time /\ t < chs[i].end_time
         THEN ScanCurrentNoBreak(t, chs, i + 1, chs[i].title)
    ELSE ScanCurrentNoBreak(t, chs, i + 1, found)

get_current_chapter_no_break(t, chs) == ScanCurrentNoBreak(t, chs, 1, UnknownChapter)

get_current_chapter(t, chs) == ScanCurrent(t, chs, 1)

\* the for loop of get_next_chapter_time from index i on
RECURSIVE ScanNext(_, _, _)
ScanNext(t, chs, i) ==
    IF i > Len(chs) THEN t
    ELSE IF t < chs[i].start_time THEN chs[i].start_time
    ELSE ScanNext(t, chs, i + 1)

\* A mutant of get_next_chapter_time: the comparison is not strict.
RECURSIVE ScanNextNotStrict(_, _, _)
ScanNextNotStrict(t, chs, i) ==
    IF i > Len(chs) THEN t
    ELSE IF t <= chs[i].start_time THEN chs[i].start_time
    ELSE ScanNextNotStrict(t, chs, i + 1)

get_next_chapter_time_not_strict(t, chs) == ScanNextNotStrict(t, chs, 1)

get_next_chapter_time(t, chs) == ScanNext(t, chs, 1)

\* the for loop of get_previous_chapter_time over reversed(chapters), from
\* index i down
RECURSIVE ScanPrevious(_, _, _)
ScanPrevious(t, chs, i) ==
    IF i < 1 THEN t
    ELSE IF t > chs[i].start_time THEN chs[i].start_time
    ELSE ScanPrevious(t, chs, i - 1)

\* A mutant of get_previous_chapter_time: the scan runs in index order.
RECURSIVE ScanPreviousForward(_, _, _)
ScanPreviousForward(t, chs, i) ==
    IF i > Len(chs) THEN t
    ELSE IF t > chs[i].start_time THEN chs[i].start_time
    ELSE ScanPreviousForward(t, chs, i + 1)

get_previous_chapter_time_forward(t, chs) == ScanPreviousForward(t, chs, 1)

get_previous_chapter_time(t, chs) == ScanPrevious(t, chs, Len(chs))

----------------------------------------------------------------------------
(* The position store: playback_position.pkl *)

\* the big-endian payload of n bytes of a pickled float
RECURSIVE Payload(_, _)
Payload(x, n) == IF n = 0 THEN <<>> ELSE Append(Payload(x \div 256, n - 1), x % 256)

\* the number a payload encodes
RECURSIVE PayloadValue(_)
PayloadValue(bs) ==
    IF Len(bs) = 0 THEN 0
    ELSE 256 * PayloadValue(SubSeq(bs, 1, Len(bs) - 1)) + bs[Len(bs)]

\* A mutant of save: the position is saved as whole seconds, int(position).
PickleDumpWholeSeconds(position) ==
    <<128, 4, 71>> \o Payload((position \div Scale) * Scale, PayloadLen) \o <<46>>

\* pickle.dump of a float: PROTO and version, BINFLOAT, the payload, STOP
PickleDump(position) == <<128, 4, 71>> \o Payload(position, PayloadLen) \o <<46>>

\* pickle.load: the value, or the exception it raises on bytes that are no
\* complete pickle (EOFError on an empty file, UnpicklingError on a cut one)
PickleLoad(bs) ==
    IF Len(bs) = 0 THEN [exc |-> "EOFError", value |-> 0]
    ELSE IF Len(bs) < PayloadLen + 4 \/ SubSeq(bs, 1, 3) # <<128, 4, 71>>
              \/ bs[PayloadLen + 4] # 46
         THEN [exc |-> "UnpicklingError", value |-> 0]
    ELSE [exc |-> "none", value |-> PayloadValue(SubSeq(bs, 4, PayloadLen + 3))]

\* open('playback_position.pkl', 'rb') and pickle.load inside the with block
ReadPosition(f) ==
    IF ~f.exists THEN [exc |-> "FileNotFoundError", value |-> 0]
    ELSE PickleLoad(f.bytes)

\* A mutant of load_playback_position: the file is read but the session
\* starts from the beginning.
load_playback_position_from_start(f) ==
    LET r == ReadPosition(f)
    IN  IF r.exc = "FileNotFoundError" THEN [raised |-> FALSE, value |-> 0]
        ELSE IF r.exc # "none" THEN [raised |-> TRUE, value |-> 0]
        ELSE [raised |-> FALSE, value |-> 0]

\* load_playback_position: only FileNotFoundError is caught
load_playback_position(f) ==
    LET r == ReadPosition(f)
    IN  IF r.exc = "FileNotFoundError" THEN [raised |-> FALSE, value |-> 0]
        ELSE IF r.exc # "none" THEN [raised |-> TRUE, value |-> 0]
        ELSE [raised |-> FALSE, value |-> r.value]

\* the proper prefixes of a byte sequence
ProperPrefixes(bs) == {SubSeq(bs, 1, n) : n \in 0 .. Len(bs) - 1}

----------------------------------------------------------------------------
(* The player channel and the key handler *)

\* PLAYBACK_CONTROLS, and a key that is none of them
CommandKeys == {"p", "s", "f", "b", "n", "m"}
Keys == CommandKeys \cup {"x"}

\* the command strings of handle_playback_controls
Line(cmd, arg, mode) == [cmd |-> cmd, arg |-> arg, mode |-> mode]
CyclePause == Line("cycle pause", 0, "")
Stop == Line("stop", 0, "")
NoScreenshot == Line("no-screenshot", 0, "")
SeekRelative(secs) == Line("seek", secs, "relative")
SeekAbsolute(t) == Line("seek", t, "absolute")

\* A mutant of send_ipc_command: no try/except around the write.
send_ipc_command_uncaught(chan, command, ok) ==
    [ipc |-> IF ok THEN Append(chan, command) ELSE chan, raised |-> ~ok]

\* A mutant of send_ipc_command: a command equal to the line written last is
\* not written again.
send_ipc_command_coalescing(chan, command, ok) ==
    [ipc |-> IF ok /\ (chan = <<>> \/ chan[Len(chan)] # command)
             THEN Append(chan, command) ELSE chan,
     raised |-> FALSE]

\* send_ipc_command: open, write the line and flush, which succeeds (ok) or
\* raises; except Exception absorbs what is raised
send_ipc_command(chan, command, ok) ==
    [ipc |-> IF ok THEN Append(chan, command) ELSE chan, raised |-> FALSE]

\* what handle_playback_controls leaves behind: the channel, whether an
\* exception left it, and its two locals
Handled(r, nxt, prv) ==
    [ipc |-> r.ipc, raised |-> r.raised, next_chapter_time |-> nxt,
     prev_chapter_time |-> prv]

\* A mutant of handle_playback_controls: keys n and m look the chapter up
\* from the target of the absolute seek written last, where there is one.
handle_playback_controls_from_seek(chan, key, t, chs, oks, nxt, prv) ==
    LET at == IF chan # <<>> /\ chan[Len(chan)].mode = "absolute"
              THEN chan[Len(chan)].arg ELSE t
    IN  IF key = "p" THEN Handled(send_ipc_command(chan, CyclePause, oks[1]), nxt, prv)
        ELSE IF key = "s" THEN
            LET r == send_ipc_command(chan, Stop, oks[1])
            IN  IF r.raised THEN Handled(r, nxt, prv)
                ELSE Handled(send_ipc_command(r.ipc, NoScreenshot, oks[2]), nxt, prv)
        ELSE IF key = "f" THEN
            Handled(send_ipc_command(chan, SeekRelative(SeekStep), oks[1]), nxt, prv)
        ELSE IF key = "b" THEN
            Handled(send_ipc_command(chan, SeekRelative(-SeekStep), oks[1]), nxt, prv)
        ELSE IF key = "n" THEN
            LET next == get_next_chapter_time(at, chs)
            IN  Handled(send_ipc_command(chan, SeekAbsolute(next), oks[1]), next, prv)
        ELSE IF key = "m" THEN
            LET prev == get_previous_chapter_time(at, chs)
            IN  Handled(send_ipc_command(chan, SeekAbsolute(prev), oks[1]), nxt, prev)
        ELSE Handled([ipc |-> chan, raised |-> FALSE], nxt, prv)

\* A mutant of handle_playback_controls: keys f and b seek the other way.
handle_playback_controls_swapped(chan, key, t, chs, oks, nxt, prv) ==
    IF key = "p" THEN Handled(send_ipc_command(chan, CyclePause, oks[1]), nxt, prv)
    ELSE IF key = "s" THEN
        LET r == send_ipc_command(chan, Stop, oks[1])
        IN  IF r.raised THEN Handled(r, nxt, prv)
            ELSE Handled(send_ipc_command(r.ipc, NoScreenshot, oks[2]), nxt, prv)
    ELSE IF key = "f" THEN
        Handled(send_ipc_command(chan, SeekRelative(-SeekStep), oks[1]), nxt, prv)
    ELSE IF key = "b" THEN
        Handled(send_ipc_command(chan, SeekRelative(SeekStep), oks[1]), nxt, prv)
    ELSE IF key = "n" THEN
        LET next == get_next_chapter_time(t, chs)
        IN  Handled(send_ipc_command(chan, SeekAbsolute(next), oks[1]), next, prv)
    ELSE IF key = "m" THEN
        LET prev == get_previous_chapter_time(t, chs)
        IN  Handled(send_ipc_command(chan, SeekAbsolute(prev), oks[1]), nxt, prev)
    ELSE Handled([ipc |-> chan, raised |-> FALSE], nxt, prv)

\* handle_playback_controls; oks[i] is the outcome of its i-th channel write,
\* nxt and prv the values its locals had
handle_playback_controls(chan, key, t, chs, oks, nxt, prv) ==
    IF key = "p" THEN Handled(send_ipc_command(chan, CyclePause, oks[1]), nxt, prv)
    ELSE IF key = "s" THEN
        LET r == send_ipc_command(chan, Stop, oks[1])
        IN  IF r.raised THEN Handled(r, nxt, prv)
            ELSE Handled(send_ipc_command(r.ipc, NoScreenshot, oks[2]), nxt, prv)
    ELSE IF key = "f" THEN
        Handled(send_ipc_command(chan, SeekRelative(SeekStep), oks[1]), nxt, prv)
    ELSE IF key = "b" THEN
        Handled(send_ipc_command(chan, SeekRelative(-SeekStep), oks[1]), nxt, prv)
    ELSE IF key = "n" THEN
        LET next == get_next_chapter_time(t, chs)
        IN  Handled(send_ipc_command(chan, SeekAbsolute(next), oks[1]), next, prv)
    ELSE IF key = "m" THEN
        LET prev == get_previous_chapter_time(t, chs)
        IN  Handled(send_ipc_command(chan, SeekAbsolute(prev), oks[1]), nxt, prev)
    ELSE Handled([ipc |-> chan, raised |-> FALSE], nxt, prv)

\* the outcomes of the channel writes a key can make: one pair per case
WriteOutcomes(key) ==
    IF key = "s" THEN {<<a, b>> : a \in BOOLEAN, b \in BOOLEAN}
    ELSE IF key \in CommandKeys THEN {<<a, TRUE>> : a \in BOOLEAN}
    ELSE {<<TRUE, TRUE>>}

----------------------------------------------------------------------------
(* The session: main and play_audiobook *)

Chapter(s, e, tags) == [start_time |-> s, end_time |-> e, title |-> ChapterTitle(tags)]

\* the audio files of the session specification: contiguous chapters, and
\* chapters with a gap, the second without a title tag
Medias ==
    { [chapters |-> <<Chapter(0, 4, "Ch1"), Chapter(4, 8, "Ch2")>>, duration |-> 8],
      [chapters |-> <<Chapter(2, 5, "Ch1"), Chapter(7, 11, "")>>, duration |-> 11] }

\* A mutant of Fmt2: a negative time is shown as 0.00s.
Fmt2_clamped(x) == IF x < 0 THEN 0 ELSE (200 * x + Scale) \div (2 * Scale)

\* f"{x:.2f}s": x in hundredths of a second, rounded
Fmt2(x) == (200 * x + Scale) \div (2 * Scale)

\* A mutant of int: the nearest whole number of seconds.
int_nearest(x) == (2 * x + Scale) \div (2 * Scale)

\* int(x) of a float x >= 0
int(x) == x \div Scale

\* A mutant of elapsed: the clock is read without the start of the loop
\* taken from it.
elapsed_without_start(clock, started, position) == clock + position

\* A mutant of elapsed: the position the session resumed from is left out.
elapsed_without_offset(clock, started, position) == clock - started

\* current_time = time.time() - start_time + playback_position
elapsed(clock, started, position) == clock - started + position

NoDisplay == [current_time |-> None, time_left |-> None, chapter_time |-> None,
              current_chapter |-> ""]

Alive == pc \in {"loop", "input", "checkpoint", "saving", "sleep"}

\* the locals of play_audiobook, its screen, its player and the channel to it
locals == <<chapters, total_duration, playback_position, start_time,
            current_time, current_chapter, display, mpv, ipc, keys>>

Init ==
    /\ media \in Medias
    /\ chapters = <<>>
    /\ total_duration = 0
    /\ now = 0
    /\ pc = "start"
    /\ error = "none"
    /\ playback_position = 0
    /\ start_time = 0
    /\ current_time = 0
    /\ current_chapter = ""
    /\ next_chapter_time = None
    /\ prev_chapter_time = None
    /\ display = NoDisplay
    /\ mpv = <<>>
    /\ ipc = <<>>
    /\ file = [exists |-> FALSE, bytes |-> <<>>]
    /\ keys = <<>>
    /\ stored = None
    /\ sessions = 1

\* the state of a process that is gone: its locals, its screen, its player
Exited ==
    /\ chapters' = <<>>
    /\ total_duration' = 0
    /\ playback_position' = 0
    /\ start_time' = 0
    /\ current_time' = 0
    /\ current_chapter' = ""
    /\ display' = NoDisplay
    /\ mpv' = <<>>
    /\ ipc' = <<>>
    /\ keys' = <<>>

\* exception e leaves play_audiobook and main: the process ends
Raise(e) ==
    /\ pc' = "dead"
    /\ error' = e
    /\ Exited

\* A mutant of Start: the player is launched before the audio file is probed.
Start_player_first ==
    /\ pc = "start"
    /\ \E probed \in BOOLEAN :
         LET loaded == load_playback_position(file)
         IN  IF loaded.raised THEN Raise("load")
             ELSE IF ~probed
             THEN /\ pc' = "dead"
                  /\ error' = "metadata"
                  /\ mpv' = Append(mpv, loaded.value)
                  /\ UNCHANGED <<chapters, total_duration, playback_position,
                                 start_time, current_time, current_chapter,
                                 display, ipc, keys>>
             ELSE /\ pc' = "loop"
                  /\ error' = "none"
                  /\ chapters' = media.chapters
                  /\ total_duration' = media.duration
                  /\ playback_position' = loaded.value
                  /\ mpv' = Append(mpv, loaded.value)
                  /\ start_time' = now
                  /\ UNCHANGED <<current_time, current_chapter, display, ipc,
                                 keys>>
    /\ UNCHANGED <<now, next_chapter_time, prev_chapter_time, file, media,
                   stored, sessions>>

\* play_audiobook up to the loop: get_metadata and the duration probe (which
\* raise when probed is false), load_playback_position, Popen, start_time
Start ==
    /\ pc = "start"
    /\ \E probed \in BOOLEAN :
         LET loaded == load_playback_position(file)
         IN  IF ~probed THEN Raise("metadata")
             ELSE IF loaded.raised THEN Raise("load")
             ELSE /\ pc' = "loop"
                  /\ error' = "none"
                  /\ chapters' = media.chapters
                  /\ total_duration' = media.duration
                  /\ playback_position' = loaded.value
                  /\ mpv' = Append(mpv, loaded.value)
                  /\ start_time' = now
                  /\ UNCHANGED <<current_time, current_chapter, display, ipc,
                                 keys>>
    /\ UNCHANGED <<now, next_chapter_time, prev_chapter_time, file, media,
                   stored, sessions>>

\* the head of the loop: current_time, time_left, get_current_chapter and
\* display_info
Compute ==
    /\ pc = "loop"
    /\ LET t == elapsed(now, start_time, playback_position)
           ch == get_current_chapter(t, chapters)
       IN  /\ current_time' = t
           /\ current_chapter' = ch
           /\ display' = [current_time |-> Fmt2(t),
                          time_left |-> Fmt2(total_duration - t),
                          chapter_time |-> Fmt2(total_duration),
                          current_chapter |-> ch]
    /\ pc' = "input"
    /\ UNCHANGED <<chapters, total_duration, now, error, playback_position,
                   start_time, next_chapter_time, prev_chapter_time, mpv, ipc,
                   file, media, keys, stored, sessions>>

\* what the history keeps of a key: the key, current_time when the key reads
\* it (n, m), and the outcomes of its channel writes
KeyEvent(key, t, oks) ==
    [key |-> key, t |-> IF key \in {"n", "m"} THEN t ELSE 0, oks |-> oks]

\* stdscr.getch(), which returns once a key is pressed, and
\* handle_playback_controls of that key
Input ==
    /\ pc = "input"
    /\ \E key \in Keys :
       \E oks \in WriteOutcomes(key) :
         LET h == handle_playback_controls(ipc, key, current_time, chapters, oks,
                                           next_chapter_time, prev_chapter_time)
         IN  /\ key \in CommandKeys => Len(keys) < MaxKeys
             /\ IF h.raised THEN Raise("ipc")
                ELSE /\ ipc' = h.ipc
                     /\ keys' = IF key \in CommandKeys
                                THEN Append(keys, KeyEvent(key, current_time, oks))
                                ELSE keys
                     /\ pc' = "checkpoint"
                     /\ UNCHANGED <<chapters, total_duration, error,
                                    playback_position, start_time, current_time,
                                    current_chapter, display, mpv>>
    /\ UNCHANGED <<now, next_chapter_time, prev_chapter_time, file, media,
                   stored, sessions>>

\* if int(current_time) % 5 == 0: save_playback_position opens the file for
\* writing, which truncates it, or raises (opened is false)
Checkpoint ==
    /\ pc = "checkpoint"
    /\ IF int(current_time) % SaveInterval = 0
       THEN \E opened \in BOOLEAN :
              IF opened
              THEN /\ file' = [exists |-> TRUE, bytes |-> <<>>]
                   /\ stored' = None
                   /\ pc' = "saving"
                   /\ UNCHANGED <<error, locals>>
              ELSE /\ Raise("save")
                   /\ UNCHANGED <<file, stored>>
       ELSE /\ pc' = "sleep"
            /\ UNCHANGED <<file, stored, error, locals>>
    /\ UNCHANGED <<now, next_chapter_time, prev_chapter_time, media, sessions>>

\* save_playback_position's pickle.dump and the close of the file: the
\* bytes reach the file, or the write raises and leaves a part of them
SaveWrite ==
    /\ pc = "saving"
    /\ \/ /\ file' = [exists |-> TRUE, bytes |-> PickleDump(current_time)]
          /\ stored' = current_time
          /\ pc' = "sleep"
          /\ UNCHANGED <<error, locals>>
       \/ /\ \E part \in ProperPrefixes(PickleDump(current_time)) :
               file' = [exists |-> TRUE, bytes |-> part]
          /\ stored' = None
          /\ Raise("save")
    /\ UNCHANGED <<now, next_chapter_time, prev_chapter_time, media, sessions>>

\* time.sleep(1): at least a second passes before the loop reads the clock
\* again; the time getch waited for its key is part of it
Sleep ==
    /\ pc = "sleep"
    /\ \E d \in Scale .. Scale + 1 :
         /\ now + d <= MaxNow
         /\ now' = now + d
    /\ pc' = "loop"
    /\ UNCHANGED <<error, locals, next_chapter_time, prev_chapter_time, file,
                   media, stored, sessions>>

\* the process is terminated from outside, the only way the loop ends
Kill ==
    /\ Alive
    /\ pc' = "killed"
    /\ Exited
    /\ UNCHANGED <<now, error, next_chapter_time, prev_chapter_time, file,
                   media, stored, sessions>>

\* main is run again
Main ==
    /\ pc \in {"killed", "dead"}
    /\ sessions < MaxSessions
    /\ sessions' = sessions + 1
    /\ pc' = "start"
    /\ error' = "none"
    /\ UNCHANGED <<now, locals, next_chapter_time, prev_chapter_time, file,
                   media, stored>>

Next ==
    \/ Start
    \/ Compute
    \/ Input
    \/ Checkpoint
    \/ SaveWrite
    \/ Sleep
    \/ Kill
    \/ Main

Spec == Init /\ [][Next]_vars

\* the session with a fair clock and a fair processor: every step the process
\* takes by itself is eventually taken. getch returns when the user presses a
\* key, which nothing makes the user do; terminating the process and running
\* main again are the user's too.
FairSpec ==
    /\ Spec
    /\ WF_vars(Start)
    /\ WF_vars(Compute)
    /\ WF_vars(Checkpoint)
    /\ WF_vars(SaveWrite)
    /\ WF_vars(Sleep)

----------------------------------------------------------------------------
(* The index specification: the three lookups on every small chapter table *)

\* the title tags of the chapters of a table, by index
TitleTags == <<"Ch1", "Ch2", "Ch3", "Ch4">>

\* the chapters get_metadata can return at index i: any times (an end before
\* its start behaves in every lookup as an end equal to it), with or without
\* a title tag
ChaptersAt(i) ==
    {Chapter(se[1], se[2], tag) :
        se \in {x \in (0 .. MaxT) \X (0 .. MaxT) : x[1] <= x[2]},
        tag \in {"", TitleTags[i]}}

\* the tables of n chapters
RECURSIVE TablesOf(_)
TablesOf(n) ==
    IF n = 0 THEN {<<>>}
    ELSE {Append(tbl, c) : tbl \in TablesOf(n - 1), c \in ChaptersAt(n)}

ChapterTables == UNION {TablesOf(n) : n \in 0 .. MaxChapters}

\* the times asked for: every chapter time, and a time past the last
QueryTimes == 0 .. MaxT + 1

IndexInit ==
    /\ chapters \in ChapterTables
    /\ pc = "index"
    /\ media = [chapters |-> <<>>, duration |-> 0]
    /\ total_duration = 0
    /\ now = 0
    /\ error = "none"
    /\ playback_position = 0
    /\ start_time = 0
    /\ current_time = 0
    /\ current_chapter = ""
    /\ next_chapter_time = None
    /\ prev_chapter_time = None
    /\ display = NoDisplay
    /\ mpv = <<>>
    /\ ipc = <<>>
    /\ file = [exists |-> FALSE, bytes |-> <<>>]
    /\ keys = <<>>
    /\ stored = None
    /\ sessions = 1

indexFrame == <<chapters, total_duration, now, error, playback_position,
                start_time, display, mpv, ipc, file, media, keys, stored,
                sessions>>

\* current_chapter = get_current_chapter(current_time, chapters)
Locate ==
    /\ pc = "index"
    /\ \E t \in QueryTimes :
         /\ current_time' = t
         /\ current_chapter' = get_current_chapter(t, chapters)
    /\ pc' = "located"
    /\ next_chapter_time' = None
    /\ prev_chapter_time' = None
    /\ UNCHANGED indexFrame

\* next_chapter_time = get_next_chapter_time(current_time, chapters)
NextChapter ==
    /\ pc = "index"
    /\ \E t \in QueryTimes :
         /\ current_time' = t
         /\ next_chapter_time' = get_next_chapter_time(t, chapters)
    /\ pc' = "next"
    /\ current_chapter' = ""
    /\ prev_chapter_time' = None
    /\ UNCHANGED indexFrame

\* prev_chapter_time = get_previous_chapter_time(current_time, chapters)
PreviousChapter ==
    /\ pc = "index"
    /\ \E t \in QueryTimes :
         /\ current_time' = t
         /\ prev_chapter_time' = get_previous_chapter_time(t, chapters)
    /\ pc' = "previous"
    /\ current_chapter' = ""
    /\ next_chapter_time' = None
    /\ UNCHANGED indexFrame

IndexNext ==
    \/ Locate
    \/ NextChapter
    \/ PreviousChapter

SpecIndex == IndexInit /\ [][IndexNext]_vars

----------------------------------------------------------------------------
(* Properties of the chapter index, under SpecIndex *)

Min(S) == CHOOSE x \in S : \A y \in S : x <= y
Max(S) == CHOOSE x \in S : \A y \in S : x >= y

\* chapter i covers time t: start <= t < end
Covers(i, t) == chapters[i].start_time <= t /\ t < chapters[i].end_time
Covering(t) == {i \in DOMAIN chapters : Covers(i, t)}
StartsAfter(t) == {i \in DOMAIN chapters : chapters[i].start_time > t}
StartsBefore(t) == {i \in DOMAIN chapters : chapters[i].start_time < t}

\* the table is sorted by start; no two chapters overlap; every chapter has
\* end > start, as the data model has it
Sorted ==
    \A i, j \in DOMAIN chapters :
        i < j => chapters[i].start_time <= chapters[j].start_time
NonOverlapping ==
    \A i, j \in DOMAIN chapters :
        i < j => chapters[i].end_time <= chapters[j].start_time
NonEmptyChapters ==
    \A i \in DOMAIN chapters : chapters[i].start_time < chapters[i].end_time
\* the titles tell the chapters apart, and from "Unknown Chapter"
DistinctTitles ==
    /\ \A i, j \in DOMAIN chapters : i # j => chapters[i].title # chapters[j].title
    /\ \A i \in DOMAIN chapters : chapters[i].title # UnknownChapter

\* C1 as claimed: locate(t) is the title of the first chapter in index order
\* with start <= t < end, and it is "Unknown Chapter" exactly when no chapter
\* has start <= t < end.
C1_SentinelExactlyWhenNoMatch ==
    pc = "located" =>
        /\ Covering(current_time) # {} =>
               current_chapter = chapters[Min(Covering(current_time))].title
        /\ current_chapter = UnknownChapter <=> Covering(current_time) = {}

\* C1 as amended: locate(t) is the title of the first chapter in index order
\* with start <= t < end (the earlier one of overlapping chapters), and it is
\* "Unknown Chapter" whenever no chapter has start <= t < end; the title of a
\* covering chapter may itself be "Unknown Chapter".
C1_LocateFirstMatch ==
    pc = "located" =>
        IF Covering(current_time) = {}
        THEN current_chapter = UnknownChapter
        ELSE current_chapter = chapters[Min(Covering(current_time))].title

\* two chapters cover the time, and the earlier one was returned
C1_Witness ==
    /\ pc = "located"
    /\ Cardinality(Covering(current_time)) = 2
    /\ DistinctTitles
    /\ current_chapter = chapters[1].title

\* C2: in a sorted, non-overlapping table, locate(c.end) is the title of the
\* chapter that starts at c.end, or "Unknown Chapter" when none does, and is
\* never c (titles telling chapters apart); locate(c.start) is c.
C2_BoundariesStartInclusiveEndExclusive ==
    (pc = "located" /\ Sorted /\ NonOverlapping /\ NonEmptyChapters) =>
        \A i \in DOMAIN chapters :
            /\ current_time = chapters[i].start_time =>
                   current_chapter = chapters[i].title
            /\ current_time = chapters[i].end_time =>
                   /\ \A j \in DOMAIN chapters :
                          chapters[j].start_time = current_time =>
                              current_chapter = chapters[j].title
                   /\ (\A j \in DOMAIN chapters :
                          chapters[j].start_time # current_time) =>
                              current_chapter = UnknownChapter
                   /\ DistinctTitles => current_chapter # chapters[i].title

\* the time is the end of the first chapter and the start of the second, and
\* the second was returned
C2_Witness ==
    /\ pc = "located"
    /\ Len(chapters) = 2
    /\ Sorted /\ NonOverlapping /\ NonEmptyChapters /\ DistinctTitles
    /\ current_time = chapters[1].end_time
    /\ current_time = chapters[2].start_time
    /\ current_chapter = chapters[2].title

\* C3 as claimed: for every table (here: of chapters with end > start),
\* nextChapterStart(t) is the smallest start greater than t, and t when no
\* start is greater.
C3_SmallestStartAfter ==
    (pc = "next" /\ NonEmptyChapters) =>
        IF StartsAfter(current_time) = {}
        THEN next_chapter_time = current_time
        ELSE next_chapter_time =
                 Min({chapters[i].start_time : i \in StartsAfter(current_time)})

\* C3 as amended: nextChapterStart(t) is the start of the first chapter in
\* index order whose start is greater than t, which is the smallest such start
\* when the table is sorted by start; it is t when no start is greater, and a
\* chapter that starts at t is not selected.
C3_FirstStartAfter ==
    pc = "next" =>
        /\ IF StartsAfter(current_time) = {}
           THEN next_chapter_time = current_time
           ELSE /\ next_chapter_time =
                       chapters[Min(StartsAfter(current_time))].start_time
                /\ next_chapter_time > current_time
        /\ (Sorted /\ StartsAfter(current_time) # {}) =>
               next_chapter_time =
                   Min({chapters[i].start_time : i \in StartsAfter(current_time)})

\* the time is the start of the first chapter, and the start of the second
\* was returned
C3_Witness ==
    /\ pc = "next"
    /\ Len(chapters) = 2
    /\ current_time = chapters[1].start_time
    /\ chapters[2].start_time > current_time
    /\ next_chapter_time = chapters[2].start_time

\* C4 as claimed: previousChapterStart(t) is the start of the last chapter in
\* index order whose start is less than t, and t when there is none; in a
\* sorted table (here: of chapters with end > start) it is the largest start
\* below t, the start of the chapter that has t strictly inside, and the
\* start of the chapter before the one that starts at t.
C4_PreviousInSortedTable ==
    (pc = "previous" /\ NonEmptyChapters) =>
        /\ IF StartsBefore(current_time) = {}
           THEN prev_chapter_time = current_time
           ELSE prev_chapter_time =
                    chapters[Max(StartsBefore(current_time))].start_time
        /\ Sorted =>
               /\ StartsBefore(current_time) # {} =>
                      prev_chapter_time =
                          Max({chapters[i].start_time :
                                  i \in StartsBefore(current_time)})
               /\ \A i \in DOMAIN chapters :
                      /\ (chapters[i].start_time < current_time
                             /\ current_time < chapters[i].end_time) =>
                             prev_chapter_time = chapters[i].start_time
                      /\ (i > 1 /\ chapters[i].start_time = current_time) =>
                             prev_chapter_time = chapters[i - 1].start_time

\* C4 as amended: the same, the last two for a table that is sorted and
\* non-overlapping with every chapter's end after its start.
C4_PreviousInSortedNonOverlappingTable ==
    pc = "previous" =>
        /\ IF StartsBefore(current_time) = {}
           THEN prev_chapter_time = current_time
           ELSE /\ prev_chapter_time =
                       chapters[Max(StartsBefore(current_time))].start_time
                /\ prev_chapter_time < current_time
        /\ (Sorted /\ StartsBefore(current_time) # {}) =>
                   prev_chapter_time =
                       Max({chapters[i].start_time :
                               i \in StartsBefore(current_time)})
        /\ (Sorted /\ NonOverlapping /\ NonEmptyChapters) =>
               \A i \in DOMAIN chapters :
                   /\ (chapters[i].start_time < current_time
                          /\ current_time < chapters[i].end_time) =>
                          prev_chapter_time = chapters[i].start_time
                   /\ (i > 1 /\ chapters[i].start_time = current_time) =>
                          prev_chapter_time = chapters[i - 1].start_time

\* the time is strictly inside the second chapter of a sorted, non-overlapping
\* table, and the start of the second chapter was returned
C4_Witness ==
    /\ pc = "previous"
    /\ Len(chapters) = 2
    /\ Sorted /\ NonOverlapping /\ NonEmptyChapters
    /\ chapters[2].start_time < current_time
    /\ current_time < chapters[2].end_time
    /\ prev_chapter_time = chapters[2].start_time
    /\ prev_chapter_time # chapters[1].start_time

----------------------------------------------------------------------------
(* Properties of the position store and of the channel, under Spec *)

\* C5: load never fails the caller: no read or deserialise error of
\* load_playback_position leaves it and ends the construction of a session.
C5_LoadNeverFails == error # "load"

\* C6: save is crash-safe: once the process was terminated, at any point of
\* save_playback_position, the file is absent or holds a complete saved
\* value, so that the next load returns a value.
C6_SaveCrashSafe ==
    pc = "killed" => ReadPosition(file).exc \in {"none", "FileNotFoundError"}

\* C7: round trip: after a completed save of x the file loads as x, and the
\* next session starts from x, the last value saved; with no file it starts
\* from 0.
C7_RoundTrip ==
    /\ [](stored # None =>
             load_playback_position(file) = [raised |-> FALSE, value |-> stored])
    /\ [](~file.exists =>
             load_playback_position(file) = [raised |-> FALSE, value |-> 0])
    /\ [][(pc = "start" /\ pc' = "loop") =>
             playback_position' = IF stored # None THEN stored ELSE 0]_vars

\* a second session has started from the last value saved by the first, a
\* position that is no whole number of seconds
C7_Witness ==
    /\ pc = "loop"
    /\ sessions = 2
    /\ stored # None
    /\ playback_position = stored
    /\ int(stored) * Scale # stored

\* a channel write of the key event failed
SendFailed(ev) == ~ev.oks[1] \/ (ev.key = "s" /\ ~ev.oks[2])

\* C8: a channel write that fails is absorbed by send_ipc_command: the key's
\* handling ends without an exception, the loop goes on to the periodic save
\* of the same tick with what it computed and published intact, and a running
\* loop is never ended by the channel.
C8_SendFailureNonFatal ==
    /\ [](error # "ipc")
    /\ [][(pc = "input" /\ pc' # "killed" /\ Len(keys') = Len(keys) + 1
              /\ SendFailed(keys'[Len(keys')])) =>
             /\ pc' = "checkpoint"
             /\ error' = "none"
             /\ UNCHANGED <<current_time, current_chapter, display, file,
                            playback_position, start_time>>]_vars

\* after a failed write of key n at one tick, a later tick computed a later
\* time, published it and completed the periodic save
C8_Witness ==
    /\ pc = "sleep"
    /\ Len(keys) = 1
    /\ keys[1].key = "n"
    /\ SendFailed(keys[1])
    /\ ipc = <<>>
    /\ current_time > keys[1].t
    /\ display.current_time = Fmt2(current_time)
    /\ stored = current_time

\* C9: a save that fails is absorbed: no exception of save_playback_position
\* ends the loop.
C9_SaveFailureNonFatal == error # "save"

\* the commands of a key, as the keymap and the encoding table give them
Encoded(ev) ==
    CASE ev.key = "p" -> <<CyclePause>>
      [] ev.key = "s" -> <<Stop, NoScreenshot>>
      [] ev.key = "f" -> <<SeekRelative(SeekStep)>>
      [] ev.key = "b" -> <<SeekRelative(-SeekStep)>>
      [] ev.key = "n" -> <<SeekAbsolute(get_next_chapter_time(ev.t, chapters))>>
      [] ev.key = "m" -> <<SeekAbsolute(get_previous_chapter_time(ev.t, chapters))>>
      [] OTHER -> <<>>

\* those of them whose channel write succeeded
Written(ev) ==
    LET cmds == Encoded(ev)
        Keep(i) == IF ev.oks[i] THEN <<cmds[i]>> ELSE <<>>
    IN  IF Len(cmds) = 0 THEN <<>>
        ELSE IF Len(cmds) = 1 THEN Keep(1)
        ELSE Keep(1) \o Keep(2)

\* the concatenation, in order, of a sequence of sequences
RECURSIVE Flatten(_)
Flatten(seqs) ==
    IF seqs = <<>> THEN <<>>
    ELSE Flatten(SubSeq(seqs, 1, Len(seqs) - 1)) \o seqs[Len(seqs)]

\* C10 as claimed: the lines written to the channel are the concatenation, in
\* key order, of every key's encoded commands: nothing is reordered, dropped,
\* duplicated or coalesced, and stop comes before no-screenshot.
C10_ChannelHoldsEveryCommand ==
    Alive => ipc = Flatten([i \in 1 .. Len(keys) |-> Encoded(keys[i])])

\* C10 as amended: the lines written to the channel are the concatenation, in
\* key order, of the encoded commands of every key whose channel write
\* succeeded: a command whose write fails is dropped, and nothing else is
\* reordered, dropped, duplicated or coalesced.
C10_ChannelHoldsEveryWrittenCommand ==
    Alive => ipc = Flatten([i \in 1 .. Len(keys) |-> Written(keys[i])])

\* key s and then key p, every write succeeding: stop, no-screenshot and
\* cycle pause are on the channel in this order
C10_Witness ==
    /\ Alive
    /\ Len(keys) = 2
    /\ keys[1].key = "s" /\ keys[2].key = "p"
    /\ ~SendFailed(keys[1]) /\ ~SendFailed(keys[2])
    /\ ipc = <<Stop, NoScreenshot, CyclePause>>

----------------------------------------------------------------------------
(* Properties of the session loop, under Spec *)

\* the key event the step has added to the history, if it has added one
Pressed == Len(keys') = Len(keys) + 1
LastKey == keys'[Len(keys')]

\* C11: the keymap and the encoding are fixed: the key handled at a tick
\* sends the commands of the table and no other (p: cycle pause; s: stop and
\* then no-screenshot; f: seek 30 relative; b: seek -30 relative; n: seek
\* absolute to the next chapter start after the tick's current_time; m: seek
\* absolute to the previous chapter start before it), each of them reaching
\* the channel when its write succeeds; any other key sends nothing.
C11_KeymapFixed ==
    [][(pc = "input" /\ pc' = "checkpoint") =>
          IF Pressed
          THEN /\ LastKey.key \in CommandKeys
               /\ LastKey.key \in {"n", "m"} => LastKey.t = current_time
               /\ ipc' = ipc \o Written(LastKey)
               /\ ~SendFailed(LastKey) => ipc' = ipc \o Encoded(LastKey)
          ELSE /\ keys' = keys
               /\ ipc' = ipc]_vars

\* key b and then key f were handled, every write succeeding: seek -30
\* relative and seek 30 relative are on the channel
C11_Witness ==
    /\ pc = "checkpoint"
    /\ Len(keys) = 2
    /\ keys[1].key = "b" /\ keys[2].key = "f"
    /\ ipc = <<Line("seek", -30, "relative"), Line("seek", 30, "relative")>>

\* C12: the targets of keys n and m are computed from the session's own
\* elapsed time at the tick the key is handled, the clock minus start_time
\* plus playback_position, whatever seeks the channel already holds: a key n
\* whose write succeeds writes seek absolute to the next chapter start after
\* that time, a key m to the previous chapter start before it.
C12_TargetsFromSessionElapsed ==
    [][(pc = "input" /\ pc' = "checkpoint" /\ Pressed /\ ~SendFailed(LastKey)) =>
          LET t == now - start_time + playback_position
          IN  /\ LastKey.key = "n" =>
                     ipc' = Append(ipc, SeekAbsolute(get_next_chapter_time(t, chapters)))
              /\ LastKey.key = "m" =>
                     ipc' = Append(ipc, SeekAbsolute(get_previous_chapter_time(t, chapters)))]_vars

\* chapters [0, 4) and [4, 8): key n before time 4 and then key m at a later
\* tick, still before time 4, have written seek 4 absolute and seek 0 absolute
C12_Witness ==
    /\ pc = "checkpoint"
    /\ Len(chapters) = 2
    /\ chapters[1].start_time = 0 /\ chapters[2].start_time = chapters[1].end_time
    /\ Len(keys) = 2
    /\ keys[1].key = "n" /\ keys[2].key = "m"
    /\ keys[1].t < keys[2].t /\ keys[2].t < chapters[2].start_time
    /\ ipc = <<SeekAbsolute(chapters[2].start_time), SeekAbsolute(0)>>

\* C13: the input wait of a tick is bounded: with a fair clock and no key
\* ever pressed, a loop that waits for input eventually leaves the wait and
\* goes on with its tick.
C13_InputWaitBounded == (pc = "input") ~> (pc # "input")

\* the whole seconds of the tick's time are a multiple of the save interval
SaveDue == (current_time \div Scale) % SaveInterval = 0

\* C14: the periodic save: at every tick save_playback_position is called
\* exactly when the whole seconds of the tick's current_time are a multiple
\* of 5, it is called after the tick's key was handled, and it saves that
\* current_time; handling a key, a seek key included, neither saves nor
\* changes the value a save writes.
C14_PeriodicCheckpoint ==
    /\ [][pc' = "checkpoint" => pc \in {"input", "checkpoint"}]_vars
    /\ [][(pc = "input" /\ pc' = "checkpoint") =>
              UNCHANGED <<file, stored, current_time>>]_vars
    /\ [][(pc = "checkpoint" /\ pc' \notin {"checkpoint", "killed"}) =>
              IF SaveDue
              THEN pc' = "saving" \/ (pc' = "dead" /\ error' = "save")
              ELSE pc' = "sleep" /\ UNCHANGED <<file, stored>>]_vars
    /\ [][(pc = "saving" /\ pc' = "sleep") =>
              /\ file' = [exists |-> TRUE, bytes |-> PickleDump(current_time)]
              /\ current_time = now - start_time + playback_position]_vars

\* the first tick saved 0; key n was handled at a later tick whose whole
\* seconds are no multiple of 5, its seek was written, and the tick ended
\* with the file still holding 0
C14_Witness ==
    /\ pc = "sleep"
    /\ ~SaveDue
    /\ Len(keys) = 1
    /\ keys[1].key = "n" /\ keys[1].t = current_time
    /\ Len(ipc) = 1
    /\ stored = 0
    /\ file = [exists |-> TRUE, bytes |-> PickleDump(0)]

\* C15: elapsed is anchored to the clock only: at every tick current_time is
\* the clock minus start_time plus playback_position; through every step of
\* a running session, key handling included, current_time never decreases
\* and start_time, playback_position, total_duration and the chapter table
\* stay what the start of the session made them.
C15_ElapsedAnchoredToClock ==
    /\ [](pc \in {"input", "checkpoint", "saving", "sleep"} =>
             current_time = now - start_time + playback_position)
    /\ [][(Alive /\ Alive') =>
              /\ current_time' >= current_time
              /\ UNCHANGED <<start_time, playback_position, total_duration,
                             chapters>>]_vars

\* a second session that resumed from a saved position has handled a seek
\* key at its first tick and a pause key at a later one, and its time has
\* advanced with the clock
C15_Witness ==
    /\ pc = "checkpoint"
    /\ sessions = 2
    /\ playback_position > 0
    /\ start_time > 0
    /\ Len(keys) = 2
    /\ keys[1].key = "n" /\ keys[1].t = playback_position
    /\ keys[2].key = "p"
    /\ Len(ipc) = 2
    /\ current_time > playback_position
    /\ current_time = now - start_time + playback_position

\* C16: the session has no state but Running: no key and no recoverable
\* failure (a failed channel write, a failed save) makes the loop exit; a
\* running loop, also after a pause or stop key was forwarded, stays running
\* until the process is terminated from outside.
C16_LoopNeverExits ==
    [][Alive => (Alive' \/ pc' = "killed")]_vars

\* the loop has computed the time of a tick
Ticked == pc \in {"input", "checkpoint", "saving", "sleep"}

\* C17: a session that starts takes as playback_position the value of the
\* last completed save of an earlier session, 0 when there was no save and
\* no file; the player is launched once, with --start at that position; the
\* time of the first tick, and of every later one, is not below it.
C17_SessionStartsFromLastSave ==
    /\ [][(pc = "start" /\ pc' = "loop") =>
              LET offset == IF stored # None THEN stored ELSE 0
              IN  /\ stored = None => ~file.exists
                  /\ playback_position' = offset
                  /\ mpv' = <<offset>>
                  /\ ipc' = <<>>]_vars
    /\ [](Alive => mpv = <<playback_position>>)
    /\ [](Ticked => current_time >= playback_position)

\* the first tick of a second session: the player was launched once at the
\* position the first session saved last, after the start, and the tick's time
\* is that position
C17_Witness ==
    /\ pc = "input"
    /\ sessions = 2
    /\ stored > 0
    /\ playback_position = stored
    /\ mpv = <<stored>>
    /\ now = start_time
    /\ current_time = stored

\* C18: a failure of get_metadata or of the duration probe is fatal and comes
\* first: play_audiobook ends there, with the loop never entered, no player
\* launched, nothing written to the channel and the position file as it was.
C18_MetadataFailureFatalFirst ==
    /\ [](error = "metadata" => (pc = "dead" /\ mpv = <<>> /\ ipc = <<>>))
    /\ [][(pc = "start" /\ error' = "metadata") =>
              /\ pc' = "dead"
              /\ mpv = <<>> /\ ipc = <<>>
              /\ UNCHANGED <<mpv, ipc, file, stored>>]_vars

\* the probe of a second run failed: the position the first run saved is
\* still in the file, and no player runs
C18_Witness ==
    /\ pc = "dead"
    /\ error = "metadata"
    /\ sessions = 2
    /\ stored > 0
    /\ file = [exists |-> TRUE, bytes |-> PickleDump(stored)]
    /\ mpv = <<>>

\* C19: the persisted value: between the saves of a running session the file
\* is as it was at the start of the session (absent, or holding the position
\* the session resumed from) or holds the current_time of a tick of this
\* session whose whole seconds are a multiple of 5; the values a session
\* saves never decrease and are never below the position it started from.
C19_PersistedValue ==
    /\ []((Alive /\ pc # "saving") =>
             IF ~file.exists THEN stored = None /\ playback_position = 0
             ELSE LET r == PickleLoad(file.bytes)
                  IN  /\ r.exc = "none"
                      /\ r.value = stored
                      /\ \/ r.value = playback_position
                         \/ /\ (r.value \div Scale) % SaveInterval = 0
                            /\ playback_position <= r.value
                            /\ r.value <= now - start_time + playback_position)
    /\ [][(pc = "saving" /\ pc' = "sleep") =>
              /\ stored' = current_time
              /\ (current_time \div Scale) % SaveInterval = 0
              /\ current_time >= playback_position]_vars
    /\ [][(pc = "checkpoint" /\ pc' = "saving" /\ stored # None) =>
              stored <= current_time]_vars

\* a second session, started after the first had saved and slept, has saved
\* a later time than the position it resumed from, which the file holds
C19_Witness ==
    /\ pc = "sleep"
    /\ sessions = 2
    /\ start_time > 0
    /\ stored > playback_position
    /\ stored = current_time
    /\ PickleLoad(file.bytes).value = stored

\* the tick's time has reached the end of the track
PastEnd == current_time >= total_duration

\* C20: no bound at the end of the track: once current_time has reached
\* total_duration the loop goes on, current_time is still the unclamped clock
\* time, the time left shown is zero or negative, the chapter shown is
\* "Unknown Chapter" when no chapter covers the time, and the periodic saves
\* go on, writing positions past the end that the next session starts from.
C20_NoEndOfTrackBound ==
    /\ []((Ticked /\ PastEnd) =>
             /\ current_time = now - start_time + playback_position
             /\ display.time_left <= 0
             /\ current_time > total_duration => display.time_left < 0
             /\ Covering(current_time) = {} => current_chapter = UnknownChapter
             /\ display.current_chapter = current_chapter)
    /\ [][(Alive /\ PastEnd /\ ~Alive' /\ pc' # "killed") =>
              (pc' = "dead" /\ error' = "save")]_vars
    /\ [][(pc = "checkpoint" /\ PastEnd /\ SaveDue
              /\ pc' \notin {"checkpoint", "killed"}) =>
              (pc' = "saving" \/ (pc' = "dead" /\ error' = "save"))]_vars
    /\ [][(pc = "saving" /\ PastEnd /\ pc' = "sleep") =>
              (stored' = current_time /\ stored' >= total_duration)]_vars
    /\ [][(pc = "start" /\ pc' = "loop" /\ stored > media.duration) =>
              (playback_position' = stored /\ mpv' = <<stored>>)]_vars

\* a second session has started from a position past the end of the track
\* that the first had saved: its first tick shows a negative time left and
\* "Unknown Chapter"
C20_Witness ==
    /\ pc = "input"
    /\ sessions = 2
    /\ playback_position > total_duration
    /\ current_time > total_duration
    /\ Covering(current_time) = {}
    /\ current_chapter = UnknownChapter
    /\ display.time_left < 0

====
